---- MODULE Spec2Model ----
(***************************************************************************)
(* A model of watermark.py (class Watermarker): the colour resolution, the *)
(* size and position arithmetic, the aspect-preserving resize, the         *)
(* mode-preserving pipeline of process_image and the per-file loop of      *)
(* process_directory.                                                      *)
(*                                                                         *)
(* Pixel contents are abstracted to one flag (watermark applied or not).   *)
(* Factors that the source writes as floats are kept as exact integers:    *)
(* an anchor factor f is stored as 2*f (0, 1, 2), a size factor as         *)
(* hundredths (5, 10, 15, 30).  Python's int() truncates towards zero.     *)
(* The print calls are taken to succeed; every other library call that can *)
(* raise is an input of the step that makes it.                            *)
(***************************************************************************)
EXTENDS Integers, Sequences, FiniteSets, TLC

VARIABLES
    config,           \* self.config, the configuration record
    phase,            \* position of the operation under study
    image,            \* the source image: [width, height]
    watermark_size,   \* <<watermark_width, watermark_height>> given to _calculate_position
    position,         \* the (x, y) _calculate_position returned
    color,            \* the RGB triple add_text_watermark resolved
    original_size,    \* watermark.size of the decoded watermark asset
    base_size,        \* the target size _calculate_size returned
    new_size,         \* <<new_width, new_height>> handed to watermark.resize
    files,            \* number of supported files input_dir.iterdir() yields
    idx,              \* number of files the loop has handled
    processed_count,  \* process_directory's processed_count
    error_count,      \* process_directory's error_count
    log,              \* history: one entry per handled file
    last              \* history: what process_image did with the last file

vars == <<config, phase, image, watermark_size, position, color, original_size,
          base_size, new_size, files, idx, processed_count, error_count, log, last>>

geomVars  == <<image, watermark_size, position>>
colorVars == <<color>>
sizeVars  == <<original_size, base_size, new_size>>
batchVars == <<files, idx, processed_count, error_count, log, last>>

----------------------------------------------------------------------------
(* Bounds of the model. *)

\* image widths and heights run over 1..MaxDim (plus three fixed larger sizes)
MaxDim == 6
\* watermark widths and heights run over 1..MaxMark
MaxMark == 7
\* watermark asset widths and heights run over 1..MaxAsset
MaxAsset == 9
\* target sizes run over 0..MaxSize
MaxSize == 9
\* the input directory holds 0..MaxFiles supported files
MaxFiles == 2

----------------------------------------------------------------------------
(* Arithmetic helpers. *)

Min(a, b) == IF a <= b THEN a ELSE b

\* Python's int() of the exact quotient a / b (b > 0): truncation towards zero
IntTrunc(a, b) == IF a >= 0 THEN a \div b ELSE -((-a) \div b)

\* round(a / b) for b > 0: to the nearest integer, a tie to the even neighbour
RoundNearest(a, b) ==
    LET fl  == a \div b
        rem == a - fl * b
    IN  IF 2 * rem < b THEN fl
        ELSE IF 2 * rem > b THEN fl + 1
        ELSE IF fl % 2 = 0 THEN fl ELSE fl + 1

----------------------------------------------------------------------------
(* Class constants. *)

\* Watermarker.POSITIONS; the two factors are stored doubled (0, 0.5, 1 -> 0, 1, 2)
POSITIONS ==
    [p \in {"top-left", "top-center", "top-right", "center-left", "center",
            "center-right", "bottom-left", "bottom-center", "bottom-right"} |->
        CASE p = "top-left"      -> <<0, 0, "left", "top">>
          [] p = "top-center"    -> <<1, 0, "center", "top">>
          [] p = "top-right"     -> <<2, 0, "right", "top">>
          [] p = "center-left"   -> <<0, 1, "left", "middle">>
          [] p = "center"        -> <<1, 1, "center", "middle">>
          [] p = "center-right"  -> <<2, 1, "right", "middle">>
          [] p = "bottom-left"   -> <<0, 2, "left", "bottom">>
          [] p = "bottom-center" -> <<1, 2, "center", "bottom">>
          [] p = "bottom-right"  -> <<2, 2, "right", "bottom">>]

\* Watermarker.SIZE_FACTORS, in hundredths
SIZE_FACTORS == [s \in {"small", "medium", "large"} |->
                    CASE s = "small" -> 5 [] s = "medium" -> 10 [] s = "large" -> 15]

\* SIZE_FACTORS.get(size, 0.3), in hundredths
SizeFactor(size) == IF size \in DOMAIN SIZE_FACTORS THEN SIZE_FACTORS[size] ELSE 30

----------------------------------------------------------------------------
(* Geometry: _calculate_size and _calculate_position. *)

\* _calculate_size(image)
CalculateSize(cfg, img) ==
    IF cfg.pixel_size > 0
    THEN cfg.pixel_size
    ELSE IntTrunc(Min(img.width, img.height) * SizeFactor(cfg.size), 100)

\* the position name _calculate_position leaves in self.config.position
FallbackPosition(name) == IF name \notin DOMAIN POSITIONS THEN "bottom-right" ELSE name

\* margin of _calculate_position: int(base_margin) on an anchor with an edge
\* axis, int(base_margin * 0.5) on the centre anchor; base_margin is 5% of
\* the smaller image dimension
MarginTwoPercent(img, fx, fy) ==
    IF fx = 0 \/ fx = 2 \/ fy = 0 \/ fy = 2
    THEN IntTrunc(Min(img.width, img.height) * 2, 100)
    ELSE IntTrunc(Min(img.width, img.height) * 2, 200)
Margin(img, fx, fy) ==
    IF fx = 0 \/ fx = 2 \/ fy = 0 \/ fy = 2
    THEN IntTrunc(Min(img.width, img.height) * 5, 100)
    ELSE IntTrunc(Min(img.width, img.height) * 5, 200)

\* one axis of _calculate_position: the base int((dimension - mark) * factor),
\* replaced by the margin at factor 0 and by dimension - mark - margin at factor 1
AxisMarginEverywhere(dimension, mark, factor2, margin) ==
    IF factor2 = 0 THEN margin ELSE dimension - mark - margin
Axis(dimension, mark, factor2, margin) ==
    LET base == IntTrunc((dimension - mark) * factor2, 2)
    IN  IF factor2 = 0 THEN margin
        ELSE IF factor2 = 2 THEN dimension - mark - margin
        ELSE base

\* _calculate_position(image, watermark_width, watermark_height): the returned
\* (x, y) and the configuration it leaves behind
CalculatePosition(cfg, img, ww, wh) ==
    LET name   == FallbackPosition(cfg.position)
        fx     == POSITIONS[name][1]
        fy     == POSITIONS[name][2]
        margin == Margin(img, fx, fy)
    IN  [config |-> [cfg EXCEPT !.position = name],
         pos    |-> <<Axis(img.width, ww, fx, margin),
                      Axis(img.height, wh, fy, margin)>>]

----------------------------------------------------------------------------
(* The configuration record (argparse namespace with the module defaults). *)

PositionNames == DOMAIN POSITIONS

\* a position name that is not a key of POSITIONS
UnknownPosition == "middle"

\* args as main() builds it from the DEFAULT_* options
DefaultConfig ==
    [input_folder  |-> "input",
     output_folder |-> "output",
     text          |-> "@ghostmark",
     image_path    |-> "",
     position      |-> "bottom-right",
     opacity       |-> "0.8",
     size          |-> "small",
     pixel_size    |-> 0,
     text_color    |-> <<"#", "0", "0", "0", "0", "0", "0">>,
     prefix        |-> ""]

NoImage == [width |-> 0, height |-> 0]
NoPair  == <<>>

----------------------------------------------------------------------------
(* SpecGeom: _calculate_position applied to bounded inputs. *)

ImageDims == (1..MaxDim) \cup {20, 30, 1000}
MarkDims  == 1..MaxMark

GeomInit ==
    /\ config \in {[DefaultConfig EXCEPT !.position = p] :
                       p \in PositionNames \cup {UnknownPosition}}
    /\ image \in [width : ImageDims, height : ImageDims]
    /\ watermark_size \in MarkDims \X MarkDims
    /\ position = NoPair
    /\ phase = "call"
    /\ color = NoPair
    /\ original_size = NoPair /\ base_size = 0 /\ new_size = NoPair
    /\ files = 0 /\ idx = 0 /\ processed_count = 0 /\ error_count = 0
    /\ log = <<>> /\ last = [kind |-> "none"]

\* a call of _calculate_position(image, watermark_width, watermark_height)
GeomCalculatePosition ==
    /\ phase = "call"
    /\ LET r == CalculatePosition(config, image, watermark_size[1], watermark_size[2])
       IN  /\ config' = r.config
           /\ position' = r.pos
    /\ phase' = "returned"
    /\ UNCHANGED <<image, watermark_size, colorVars, sizeVars, batchVars>>

GeomNext == GeomCalculatePosition

SpecGeom == GeomInit /\ [][GeomNext]_vars

\* the state after _calculate_position returned, and its pieces
GeomReturned == phase = "returned" /\ position # NoPair
PosX == position[1]
PosY == position[2]
MarkW == watermark_size[1]
MarkH == watermark_size[2]
FactorX2 == POSITIONS[config.position][1]
FactorY2 == POSITIONS[config.position][2]

(* C2: for any image, any watermark size and any of the 8 anchors with an
   edge axis, the returned position keeps the watermark box strictly inside
   the image: x > 0 and y > 0 on edge axes, x >= 0 and y >= 0 on centred
   axes, x + watermark_width <= width and y + watermark_height <= height. *)
C2_BoxStrictlyInside ==
    (GeomReturned /\ config.position # "center") =>
        /\ IF FactorX2 = 1 THEN PosX >= 0 ELSE PosX > 0
        /\ IF FactorY2 = 1 THEN PosY >= 0 ELSE PosY > 0
        /\ PosX + MarkW <= image.width
        /\ PosY + MarkH <= image.height

(* C5: for the anchor "center" the returned position is within 1 pixel of
   the exact centre ((width - mark_width) / 2, (height - mark_height) / 2) on
   each axis, and carries no margin: it is that centre truncated to an
   integer. *)
C5_CenterWithinOnePixel ==
    (GeomReturned /\ config.position = "center") =>
        LET dx == image.width - MarkW
            dy == image.height - MarkH
        IN  /\ 2 * PosX - dx \in -2..2
            /\ 2 * PosY - dy \in -2..2
            /\ PosX = (IF dx >= 0 THEN dx \div 2 ELSE -((-dx) \div 2))
            /\ PosY = (IF dy >= 0 THEN dy \div 2 ELSE -((-dy) \div 2))

\* a centre anchor on a 1000 x 1000 image (edge margin 50) and an odd difference
C5_Witness ==
    /\ GeomReturned /\ config.position = "center"
    /\ image = [width |-> 1000, height |-> 1000]
    /\ watermark_size = <<7, 4>>
    /\ position = <<496, 498>>

\* the position the claim C7 describes on one axis; `centred` is the value of
\* (dimension - mark) * 0.5 as an integer
C7Expected(dimension, mark, factor2, margin, centred) ==
    CASE factor2 = 0 -> margin
      [] factor2 = 2 -> dimension - mark - margin
      [] factor2 = 1 -> centred

\* the example of C7: 1000 x 1000, bottom-right, right and bottom edges at 950
C7Example ==
    (image = [width |-> 1000, height |-> 1000] /\ config.position = "bottom-right") =>
        (PosX + MarkW = 950 /\ PosY + MarkH = 950)

(* C7 as stated: for every anchor the margin is round(min(width, height) *
   0.05), rounded to nearest, and each axis returns the margin at factor 0,
   dimension - mark - margin at factor 1 and round((dimension - mark) * 0.5)
   at factor 0.5; 1000 x 1000 with bottom-right puts the edges at 950. *)
C7_RoundedMargin ==
    GeomReturned =>
        LET margin == RoundNearest(Min(image.width, image.height) * 5, 100)
        IN  /\ PosX = C7Expected(image.width, MarkW, FactorX2, margin,
                                 RoundNearest(image.width - MarkW, 2))
            /\ PosY = C7Expected(image.height, MarkH, FactorY2, margin,
                                 RoundNearest(image.height - MarkH, 2))
            /\ C7Example

(* C7 amended: the margin is min(width, height) * 0.05 truncated to an
   integer, and each axis returns the margin at factor 0, dimension - mark -
   margin at factor 1 and (dimension - mark) * 0.5 truncated towards zero at
   factor 0.5; 1000 x 1000 with bottom-right puts the edges at 950. *)
C7_TruncatedMargin ==
    GeomReturned =>
        LET margin == Min(image.width, image.height) \div 20
            Tr(a, b) == IF a >= 0 THEN a \div b ELSE -((-a) \div b)
        IN  /\ PosX = C7Expected(image.width, MarkW, FactorX2, margin,
                                 Tr(image.width - MarkW, 2))
            /\ PosY = C7Expected(image.height, MarkH, FactorY2, margin,
                                 Tr(image.height - MarkH, 2))
            /\ C7Example

\* a 30-pixel image: 30 * 0.05 = 1.5 gives margin 1 (rounding would give 2)
C7_Witness ==
    /\ GeomReturned /\ config.position = "top-left"
    /\ image = [width |-> 30, height |-> 1000]
    /\ position = <<1, 1>>

----------------------------------------------------------------------------
(* Colour resolution of add_text_watermark.  A string is a sequence of
   one-character strings. *)

UpperLetters == <<"A", "B", "C", "D", "E", "F", "G", "H", "I", "J", "K", "L", "M",
                  "N", "O", "P", "Q", "R", "S", "T", "U", "V", "W", "X", "Y", "Z">>
LowerLetters == <<"a", "b", "c", "d", "e", "f", "g", "h", "i", "j", "k", "l", "m",
                  "n", "o", "p", "q", "r", "s", "t", "u", "v", "w", "x", "y", "z">>
HexDigits    == <<"0", "1", "2", "3", "4", "5", "6", "7", "8", "9",
                  "a", "b", "c", "d", "e", "f">>

IndexOf(c, letters) == CHOOSE i \in 1..Len(letters) : letters[i] = c
Occurs(c, letters)  == \E i \in 1..Len(letters) : letters[i] = c

LowerChar(c) == IF Occurs(c, UpperLetters) THEN LowerLetters[IndexOf(c, UpperLetters)] ELSE c
UpperChar(c) == IF Occurs(c, LowerLetters) THEN UpperLetters[IndexOf(c, LowerLetters)] ELSE c

\* str.lower()
LowerStr(s) == [i \in 1..Len(s) |-> LowerChar(s[i])]
UpperStr(s) == [i \in 1..Len(s) |-> UpperChar(s[i])]

IsSpace(c)    == c = " "
IsHexDigit(c) == Occurs(LowerChar(c), HexDigits)
HexValue(c)   == IndexOf(LowerChar(c), HexDigits) - 1

RECURSIVE HexNumber(_)
HexNumber(digits) ==
    IF digits = <<>> THEN 0
    ELSE 16 * HexNumber(SubSeq(digits, 1, Len(digits) - 1)) + HexValue(digits[Len(digits)])

\* int(s, 16) for the strings of at most two characters the code hands it:
\* surrounding whitespace is stripped, one sign is accepted, what is left must
\* be one or more hex digits of either case; anything else raises ValueError.
\* (A "0x" prefix or an underscore needs three characters to be accepted.)
ParseInt16(s) ==
    LET solid == {i \in 1..Len(s) : ~IsSpace(s[i])}
    IN  IF solid = {} THEN [ok |-> FALSE, value |-> 0]
        ELSE LET lo     == CHOOSE i \in solid : \A j \in solid : i <= j
                 hi     == CHOOSE i \in solid : \A j \in solid : j <= i
                 body   == SubSeq(s, lo, hi)
                 signed == body[1] \in {"+", "-"}
                 digits == IF signed THEN Tail(body) ELSE body
                 number == HexNumber(digits)
             IN  IF digits # <<>> /\ \A i \in 1..Len(digits) : IsHexDigit(digits[i])
                 THEN [ok |-> TRUE, value |-> IF body[1] = "-" THEN -number ELSE number]
                 ELSE [ok |-> FALSE, value |-> 0]

\* Watermarker.COLORS
COLORS ==
    [n \in
    {<<"w", "h", "i", "t", "e">>,
     <<"b", "l", "a", "c", "k">>,
     <<"r", "e", "d">>,
     <<"g", "r", "e", "e", "n">>,
     <<"b", "l", "u", "e">>,
     <<"y", "e", "l", "l", "o", "w">>,
     <<"c", "y", "a", "n">>,
     <<"m", "a", "g", "e", "n", "t", "a">>,
     <<"g", "r", "a", "y">>,
     <<"o", "r", "a", "n", "g", "e">>,
     <<"p", "u", "r", "p", "l", "e">>,
     <<"p", "i", "n", "k">>} |->
        CASE n = <<"w", "h", "i", "t", "e">>            -> <<255, 255, 255>>
          [] n = <<"b", "l", "a", "c", "k">>            -> <<0, 0, 0>>
          [] n = <<"r", "e", "d">>                      -> <<255, 0, 0>>
          [] n = <<"g", "r", "e", "e", "n">>            -> <<0, 255, 0>>
          [] n = <<"b", "l", "u", "e">>                 -> <<0, 0, 255>>
          [] n = <<"y", "e", "l", "l", "o", "w">>       -> <<255, 255, 0>>
          [] n = <<"c", "y", "a", "n">>                 -> <<0, 255, 255>>
          [] n = <<"m", "a", "g", "e", "n", "t", "a">>  -> <<255, 0, 255>>
          [] n = <<"g", "r", "a", "y">>                 -> <<128, 128, 128>>
          [] n = <<"o", "r", "a", "n", "g", "e">>       -> <<255, 165, 0>>
          [] n = <<"p", "u", "r", "p", "l", "e">>       -> <<128, 0, 128>>
          [] n = <<"p", "i", "n", "k">>                 -> <<255, 192, 203>>]

\* COLORS.get(text_color, (255, 255, 255))
ColorsGet(text_color) ==
    IF text_color \in DOMAIN COLORS THEN COLORS[text_color] ELSE <<255, 255, 255>>

\* the three strings int(., 16) is applied to: each nibble doubled for #RGB,
\* the three pairs for #RRGGBB
HexPartsNotDoubled(text_color) ==
    IF Len(text_color) = 4
    THEN [k \in 1..3 |-> <<text_color[k + 1]>>]
    ELSE [k \in 1..3 |-> SubSeq(text_color, 2 * k, 2 * k + 1)]
HexParts(text_color) ==
    IF Len(text_color) = 4
    THEN [k \in 1..3 |-> <<text_color[k + 1], text_color[k + 1]>>]
    ELSE [k \in 1..3 |-> SubSeq(text_color, 2 * k, 2 * k + 1)]

\* the colour add_text_watermark draws with, from self.config.text_color
ResolveColor(raw) ==
    LET text_color == LowerStr(raw)
    IN  IF Len(text_color) \in {4, 7} /\ text_color[1] = "#"
        THEN LET parsed == [k \in 1..3 |-> ParseInt16(HexParts(text_color)[k])]
             IN  IF \A k \in 1..3 : parsed[k].ok
                 THEN <<parsed[1].value, parsed[2].value, parsed[3].value>>
                 ELSE ColorsGet(text_color)
        ELSE ColorsGet(text_color)

----------------------------------------------------------------------------
(* SpecColor: the colour resolution applied to bounded inputs. *)

\* characters of the hex strings tried: every hex digit in both cases, and
\* characters that are not hex digits
HexChars   == {HexDigits[i] : i \in 1..16} \cup {UpperChar(HexDigits[i]) : i \in 11..16}
OtherChars == {"g", "x", "+", "-", " ", "_", "#"}
ColorChars == HexChars \cup OtherChars

\* pairs tried for the green and blue components of a 7-character string
ComponentPairs == {<<"0", "0">>, <<"f", "F">>, <<"+", "8">>, <<"g", "0">>}

ShortInputs == {<<"#", a, b, c>> : a \in ColorChars, b \in ColorChars, c \in ColorChars}
LongInputs  == {<<"#", a, b>> \o p \o q :
                    a \in ColorChars, b \in ColorChars, p \in ComponentPairs, q \in ComponentPairs}
NameInputs  ==
    LET known == DOMAIN COLORS
        other == {<<>>, <<"t", "e", "a", "l">>, <<"f", "0", "0">>, <<"#", "f", "f">>,
                  <<"#", "f", "f", "f", "f">>, <<"f", "f", "0", "0", "0", "0">>,
                  <<"r", "e", "d", " ">>}
        all   == known \cup other
    IN  all \cup {UpperStr(n) : n \in all}
            \cup {<<UpperChar(n[1])>> \o Tail(n) : n \in all \ {<<>>}}

ColorInputs == ShortInputs \cup LongInputs \cup NameInputs

ColorInit ==
    /\ config \in {[DefaultConfig EXCEPT !.text_color = c] : c \in ColorInputs}
    /\ color = NoPair
    /\ phase = "call"
    /\ image = NoImage /\ watermark_size = NoPair /\ position = NoPair
    /\ original_size = NoPair /\ base_size = 0 /\ new_size = NoPair
    /\ files = 0 /\ idx = 0 /\ processed_count = 0 /\ error_count = 0
    /\ log = <<>> /\ last = [kind |-> "none"]

\* "Determine text color" of add_text_watermark
ColorResolve ==
    /\ phase = "call"
    /\ color' = ResolveColor(config.text_color)
    /\ phase' = "returned"
    /\ UNCHANGED <<config, geomVars, sizeVars, batchVars>>

ColorNext == ColorResolve

SpecColor == ColorInit /\ [][ColorNext]_vars

ColorReturned == phase = "returned" /\ color # NoPair

\* "#" followed by exactly n hex digits
IsHexCode(s, n) == Len(s) = n + 1 /\ s[1] = "#" /\ \A i \in 2..(n + 1) : IsHexDigit(s[i])

\* the parse of the hex branch succeeds: "#", length 4 or 7, and int(., 16)
\* accepts each of the three components
Parsable(s) ==
    /\ Len(s) \in {4, 7} /\ s[1] = "#"
    /\ \A k \in 1..3 :
          LET part == IF Len(s) = 4 THEN <<s[k + 1], s[k + 1]>> ELSE SubSeq(s, 2 * k, 2 * k + 1)
          IN  ParseInt16(part).ok

(* C6: the colour resolution is case-insensitive; for all hex digits r, g, b
   the shorthand "#rgb" gives the same triple as "#rrggbb" (#F00 and #FF0000
   both give (255,0,0)); a string that is neither a parsable 4- or
   7-character hex code nor one of the 12 table names gives white. *)
C6_ColorResolution ==
    ColorReturned =>
        LET s == config.text_color
        IN  /\ color = ResolveColor(UpperStr(s))
            /\ color = ResolveColor(LowerStr(s))
            /\ IsHexCode(s, 3) =>
                  /\ color = ResolveColor(<<"#", s[2], s[2], s[3], s[3], s[4], s[4]>>)
                  /\ color = <<17 * HexValue(s[2]), 17 * HexValue(s[3]), 17 * HexValue(s[4])>>
            /\ s = <<"#", "F", "0", "0">> => color = <<255, 0, 0>>
            /\ s = <<"#", "F", "F", "0", "0", "0", "0">> => color = <<255, 0, 0>>
            /\ IsHexCode(s, 6) =>
                  color = <<HexNumber(SubSeq(s, 2, 3)), HexNumber(SubSeq(s, 4, 5)),
                            HexNumber(SubSeq(s, 6, 7))>>
            /\ (~Parsable(LowerStr(s)) /\ LowerStr(s) \notin DOMAIN COLORS) =>
                  color = <<255, 255, 255>>

\* the shorthand #F00 resolved to red
C6_Witness ==
    /\ ColorReturned
    /\ config.text_color = <<"#", "F", "0", "0">>
    /\ color = <<255, 0, 0>>

----------------------------------------------------------------------------
(* The aspect-preserving resize of add_image_watermark. *)

\* The quotient is computed in double precision as base_size / (w / h) or
\* base_size * (w / h) and then truncated.  It equals the exact quotient
\* truncated, except where the exact quotient is an integer and the double
\* lands just below it: for widths, heights and sizes up to 16 that is the
\* one triple <<width, height, base_size>> below (9 / (9 / 7) = 6.999...).
QuotientJustBelow == {<<9, 7, 9>>}

\* int(base_size / aspect_ratio) when wide, int(base_size * aspect_ratio) otherwise
ShorterSide(original_width, original_height, size) ==
    LET exact == IF original_width > original_height
                 THEN (size * original_height) \div original_width
                 ELSE (size * original_width) \div original_height
    IN  IF <<original_width, original_height, size>> \in QuotientJustBelow
        THEN exact - 1
        ELSE exact

\* (new_width, new_height) of add_image_watermark
ResizeDims(original_width, original_height, size) ==
    IF original_width > original_height
    THEN <<size, ShorterSide(original_width, original_height, size)>>
    ELSE <<ShorterSide(original_width, original_height, size), size>>

----------------------------------------------------------------------------
(* SpecResize: the resize arithmetic applied to bounded inputs. *)

ResizeInit ==
    /\ original_size \in (1..MaxAsset) \X (1..MaxAsset)
    /\ base_size \in 0..MaxSize
    /\ new_size = NoPair
    /\ phase = "call"
    /\ config = DefaultConfig
    /\ image = NoImage /\ watermark_size = NoPair /\ position = NoPair
    /\ color = NoPair
    /\ files = 0 /\ idx = 0 /\ processed_count = 0 /\ error_count = 0
    /\ log = <<>> /\ last = [kind |-> "none"]

\* "Resize watermark to appropriate size": the size handed to watermark.resize
ResizeCompute ==
    /\ phase = "call"
    /\ new_size' = ResizeDims(original_size[1], original_size[2], base_size)
    /\ phase' = "returned"
    /\ UNCHANGED <<config, original_size, base_size, geomVars, colorVars, batchVars>>

ResizeNext == ResizeCompute

SpecResize == ResizeInit /\ [][ResizeNext]_vars

(* C8: for every watermark asset size and every target size s >= 1 the
   resized watermark has its longer side equal to s and its shorter side
   equal to the proportional value rounded to the nearest integer and never
   less than 1, so resize is never asked for a zero width or height. *)
C8_ShorterSideRoundedAtLeastOne ==
    (phase = "returned" /\ new_size # NoPair /\ base_size >= 1) =>
        LET w       == original_size[1]
            h       == original_size[2]
            rounded == IF w > h THEN RoundNearest(base_size * h, w)
                                ELSE RoundNearest(base_size * w, h)
            shorter == IF rounded < 1 THEN 1 ELSE rounded
        IN  /\ new_size = (IF w > h THEN <<base_size, shorter>> ELSE <<shorter, base_size>>)
            /\ new_size[1] >= 1 /\ new_size[2] >= 1

----------------------------------------------------------------------------
(* The pipeline: add_text_watermark, add_image_watermark, process_image. *)

\* process_image returned None
None == [kind |-> "None"]

\* an RGBA image object of the given size
Rgba(img, marked) ==
    [kind |-> "Image", mode |-> "RGBA", width |-> img.width, height |-> img.height,
     watermarked |-> marked]

\* a truthy configuration string (None and "" are both falsy)
Truthy(str) == str # ""

\* add_text_watermark(image).  env.text tells whether the font, measuring and
\* drawing calls raise, and on which side of _calculate_position; env.bbox is
\* the text box draw.textbbox measures.
AddTextWatermark(cfg, img, env) ==
    IF env.text = "raises_before_position"
    THEN [config |-> cfg, raised |-> TRUE, image |-> None]
    ELSE LET r == CalculatePosition(cfg, img, env.bbox[1], env.bbox[2])
         IN  IF env.text = "raises_after_position"
             THEN [config |-> r.config, raised |-> TRUE, image |-> None]
             ELSE [config |-> r.config, raised |-> FALSE, image |-> Rgba(img, TRUE)]

\* add_image_watermark(image) without its try/except: a failure propagates
AddImageWatermarkUncaught(cfg, img, env) ==
    IF ~env.asset.readable
    THEN [config |-> cfg, raised |-> TRUE, image |-> None]
    ELSE LET size == CalculateSize(cfg, img)
             new  == ResizeDims(env.asset.width, env.asset.height, size)
             r    == CalculatePosition(cfg, img, new[1], new[2])
         IN  IF new[1] < 1 \/ new[2] < 1
             THEN [config |-> cfg, raised |-> TRUE, image |-> None]
             ELSE [config |-> r.config, raised |-> FALSE, image |-> Rgba(img, TRUE)]

\* add_image_watermark(image).  env.asset.readable is FALSE when opening or
\* decoding self.config.image_path raises; else env.asset has the asset's size.
\* watermark.resize raises ValueError for a width or height below 1.  Every
\* exception ends in the except branch, which returns the image it was given.
AddImageWatermark(cfg, img, env) ==
    IF ~env.asset.readable
    THEN [config |-> cfg, raised |-> FALSE, image |-> Rgba(img, FALSE)]
    ELSE LET size == CalculateSize(cfg, img)
             new  == ResizeDims(env.asset.width, env.asset.height, size)
             r    == CalculatePosition(cfg, img, new[1], new[2])
         IN  IF new[1] < 1 \/ new[2] < 1
             THEN [config |-> cfg, raised |-> FALSE, image |-> Rgba(img, FALSE)]
             ELSE [config |-> r.config, raised |-> FALSE, image |-> Rgba(img, TRUE)]

\* "Convert back to original mode if it wasn't RGBA": RGB through a white
\* background, L and P through convert(); any other mode is left as RGBA
ConvertBack(watermarked, original_mode) ==
    IF original_mode # "RGBA"
    THEN IF original_mode = "RGB"
         THEN [watermarked EXCEPT !.mode = "RGB"]
         ELSE IF original_mode \in {"L", "P"}
              THEN [watermarked EXCEPT !.mode = original_mode]
              ELSE watermarked
    ELSE watermarked

\* process_image(input_path): the configuration it leaves and what it returns
\* (an image, or None when an exception was caught)
ProcessImage(cfg, src, env) ==
    IF ~src.decodes
    THEN [config |-> cfg, returned |-> None]
    ELSE LET img == [width |-> src.width, height |-> src.height]
         IN  IF Truthy(cfg.text)
             THEN LET t == AddTextWatermark(cfg, img, env)
                  IN  [config   |-> t.config,
                       returned |-> IF t.raised THEN None
                                    ELSE ConvertBack(t.image, src.mode)]
             ELSE IF Truthy(cfg.image_path)
                  THEN LET m == AddImageWatermark(cfg, img, env)
                       IN  [config   |-> m.config,
                            returned |-> IF m.raised THEN None
                                         ELSE ConvertBack(m.image, src.mode)]
                  ELSE [config |-> cfg, returned |-> Rgba(img, FALSE)]

----------------------------------------------------------------------------
(* The loop of process_directory. *)

\* the counting of one file with processed_count += 1 ahead of the save
TallyCountBeforeSave(returned, save_ok) ==
    IF returned # None
    THEN [save |-> IF save_ok THEN "ok" ELSE "raised",
          processed |-> 1, errors |-> IF save_ok THEN 0 ELSE 1, aborted |-> FALSE]
    ELSE [save |-> "skipped", processed |-> 0, errors |-> 1, aborted |-> FALSE]

\* the counting of one file without the loop's try/except
TallySaveUncaught(returned, save_ok) ==
    IF returned # None
    THEN IF save_ok
         THEN [save |-> "ok", processed |-> 1, errors |-> 0, aborted |-> FALSE]
         ELSE [save |-> "raised", processed |-> 0, errors |-> 0, aborted |-> TRUE]
    ELSE [save |-> "skipped", processed |-> 0, errors |-> 1, aborted |-> FALSE]

\* the body of the loop after process_image: a truthy result is saved and
\* processed_count incremented after the save; an exception of the save is
\* caught by the loop's except branch, which increments error_count; a None
\* result increments error_count
Tally(returned, save_ok) ==
    IF returned # None
    THEN IF save_ok
         THEN [save |-> "ok", processed |-> 1, errors |-> 0, aborted |-> FALSE]
         ELSE [save |-> "raised", processed |-> 0, errors |-> 1, aborted |-> FALSE]
    ELSE [save |-> "skipped", processed |-> 0, errors |-> 1, aborted |-> FALSE]

----------------------------------------------------------------------------
(* Spec: process_directory over a directory of bounded size. *)

\* decoded colour modes; "CMYK" stands for the modes the pipeline does not name
Modes == {"RGBA", "RGB", "L", "P", "CMYK"}

\* what Image.open makes of an input file
Sources ==
    {[decodes |-> FALSE, mode |-> "none", width |-> 0, height |-> 0]}
    \cup [decodes : {TRUE}, mode : Modes, width : {40}, height : {30}]

\* the watermark asset behind self.config.image_path
UnreadableAsset == [readable |-> FALSE, width |-> 0, height |-> 0]
Asset(w, h)     == [readable |-> TRUE, width |-> w, height |-> h]

\* what the libraries and the file system do while one file is handled; only
\* the configured branch reads its part (the other part is held fixed)
Envs(branch) ==
    [text    : IF branch = "text"
               THEN {"ok", "raises_before_position", "raises_after_position"}
               ELSE {"ok"},
     bbox    : {<<12, 4>>},
     asset   : IF branch = "image"
               THEN {UnreadableAsset, Asset(4, 4), Asset(9, 1), Asset(2, 3)}
               ELSE {UnreadableAsset},
     save_ok : BOOLEAN]

BatchConfigs ==
    {[DefaultConfig EXCEPT !.text = t, !.image_path = m, !.position = p,
                           !.pixel_size = px, !.size = sz] :
        t \in {"", "@ghostmark"}, m \in {"", "logo.png"},
        p \in PositionNames \cup {UnknownPosition}, px \in {0, 3},
        sz \in {"small", "huge"}}

Init ==
    /\ config \in BatchConfigs
    /\ files \in 0..MaxFiles
    /\ idx = 0
    /\ processed_count = 0
    /\ error_count = 0
    /\ log = <<>>
    /\ last = [kind |-> "none"]
    /\ phase = "loop"
    /\ image = NoImage /\ watermark_size = NoPair /\ position = NoPair
    /\ color = NoPair
    /\ original_size = NoPair /\ base_size = 0 /\ new_size = NoPair

\* the part of env the configured branch reads
Branch(cfg) ==
    IF Truthy(cfg.text) THEN "text" ELSE IF Truthy(cfg.image_path) THEN "image" ELSE "none"

\* one iteration of the loop: the next supported file is processed, saved
\* and counted
ProcessFile ==
    /\ phase = "loop"
    /\ idx < files
    /\ \E src \in Sources, env \in Envs(Branch(config)) :
          LET r == ProcessImage(config, src, env)
              t == Tally(r.returned, env.save_ok)
          IN  /\ config' = r.config
              /\ processed_count' = processed_count + t.processed
              /\ error_count' = error_count + t.errors
              /\ idx' = idx + 1
              /\ phase' = IF t.aborted THEN "aborted" ELSE "loop"
              /\ log' = Append(log, [file      |-> idx + 1,
                                     returned  |-> r.returned.kind,
                                     save      |-> t.save,
                                     processed |-> t.processed,
                                     errors    |-> t.errors])
              /\ last' = [kind     |-> "file",
                          decodes  |-> src.decodes,
                          mode     |-> src.mode,
                          width    |-> src.width,
                          height   |-> src.height,
                          branch   |-> Branch(config),
                          asset    |-> IF src.decodes /\ Branch(config) = "image"
                                       THEN (IF env.asset.readable THEN "readable"
                                                                   ELSE "unreadable")
                                       ELSE "unused",
                          returned |-> r.returned]
    /\ UNCHANGED <<files, geomVars, colorVars, sizeVars>>

\* the loop is exhausted: the summary line is printed
Summary ==
    /\ phase = "loop"
    /\ idx = files
    /\ phase' = "done"
    /\ UNCHANGED <<config, batchVars, geomVars, colorVars, sizeVars>>

Next == ProcessFile \/ Summary

Spec == Init /\ [][Next]_vars

\* the loop is synchronous and single-threaded: it keeps taking its next step
LiveSpec == Spec /\ WF_vars(Next)

----------------------------------------------------------------------------
(* Claims about process_image and process_directory. *)

\* the loop has handled at least one file; Entry is its log entry
Handled == last.kind = "file" /\ Len(log) >= 1
Entry   == log[Len(log)]

(* C1: for a source image of mode RGBA, RGB, L or P and every branch of
   process_image (text, image path, neither, image path with an unreadable
   asset), the image process_image returns has the mode of the source. *)
C1_ModePreserved ==
    (Handled /\ last.decodes /\ last.mode \in {"RGBA", "RGB", "L", "P"}
             /\ last.returned # None) =>
        last.returned.mode = last.mode

\* the last file went through add_image_watermark with an unreadable asset
AssetFailed ==
    /\ Handled /\ last.decodes
    /\ last.branch = "image" /\ last.asset = "unreadable"

(* C3: with an image path configured (and no text) and an unreadable
   watermark asset, add_image_watermark raises nothing and returns the
   source image without a watermark; process_image returns an image, not
   None; process_directory saves it, counts the file as processed and not as
   an error (when the save itself succeeds), and goes on to the next file. *)
C3_AssetFailureDegrades ==
    AssetFailed =>
        /\ last.returned # None
        /\ last.returned.kind = "Image"
        /\ ~last.returned.watermarked
        /\ last.returned.width = last.width /\ last.returned.height = last.height
        /\ Entry.returned = "Image"
        /\ Entry.save \in {"ok", "raised"}
        /\ Entry.save = "ok" => (Entry.processed = 1 /\ Entry.errors = 0)
        /\ phase \in {"loop", "done"}
        /\ (phase = "loop" /\ idx < files) => ENABLED ProcessFile

\* an unreadable asset on the first of two files: saved, counted as processed
C3_Witness ==
    /\ AssetFailed
    /\ files = 2 /\ idx = 1
    /\ Entry.save = "ok"
    /\ processed_count = 1 /\ error_count = 0
    /\ phase = "loop"

\* every handled file was attempted once, in enumeration order
AttemptedInOrder ==
    /\ Len(log) = idx
    /\ idx <= files
    /\ \A k \in 1..Len(log) : log[k].file = k
    /\ phase # "aborted"
    /\ phase = "done" => Len(log) = files

(* C4: for any list of supported files and any combination of per-file
   outcomes (decode failure, compositing failure, write failure, success)
   every file is attempted exactly once in enumeration order, no failure
   keeps a later file from being attempted, and the run always reaches the
   final summary. *)
C4_EveryFileAttemptedOnce ==
    /\ []AttemptedInOrder
    /\ <>(phase = "done")

\* a run whose first file failed to save and whose second file was saved
C4_Witness ==
    /\ phase = "done" /\ files = 2
    /\ log[1].save = "raised"
    /\ log[2].file = 2 /\ log[2].save = "ok"

(* C9: the configuration record is read-only after construction: no call
   changes any configuration field, also when the configured anchor is not
   one of the 9 recognised positions and bottom-right is the fallback. *)
C9_ConfigReadOnly == [][config' = config]_vars

\* the log entries the loop counted as processed, and as errors
CountedProcessed == {k \in 1..Len(log) : log[k].processed = 1}
CountedErrors    == {k \in 1..Len(log) : log[k].errors = 1}

(* C10: after any number of files processed_count + error_count is the
   number of files handled; each file increments exactly one of the two
   counters by exactly 1; processed_count is incremented only for a file
   whose image was saved without an exception (a None result or a raising
   save counts in error_count only). *)
C10_CountersPartitionFiles ==
    phase \in {"loop", "done"} =>
        /\ processed_count + error_count = idx
        /\ idx = Len(log)
        /\ \A k \in 1..Len(log) :
              /\ log[k].processed + log[k].errors = 1
              /\ log[k].processed = 1 <=> (log[k].returned = "Image" /\ log[k].save = "ok")
              /\ log[k].errors = 1 <=> (log[k].returned = "None" \/ log[k].save = "raised")
        /\ processed_count = Cardinality(CountedProcessed)
        /\ error_count = Cardinality(CountedErrors)

\* two files: one whose save raised, one saved
C10_Witness ==
    /\ phase = "done" /\ files = 2
    /\ log[1].returned = "Image" /\ log[1].save = "raised"
    /\ log[2].returned = "Image" /\ log[2].save = "ok"
    /\ processed_count = 1 /\ error_count = 1

====
